---- MODULE Spec2Model ----
(***************************************************************************)
(* Model of acpuclk (src/src/main.rs): the extraction of acpu_level tables *)
(* from a kernel source and their rendering as devicetree OPP nodes.       *)
(*                                                                         *)
(* The source text is an input: each step of main's loops draws the next   *)
(* paired table (its PVS designator) or the next row (its token sequence,  *)
(* as FREQ_REGEX segments a string matched by inner_regex) from a small    *)
(* set.  Unsigned 32-bit quantities are kept as two base-2^16 limbs        *)
(* <<hi, lo>>, so that parse::<u32>, parse::<u8> and the u32 product       *)
(* freq * 1000 keep their width.                                           *)
(***************************************************************************)
EXTENDS Integers, Sequences, FiniteSets, TLC

VARIABLES
    pc,        \* where main is: "tables" (line 134), "rows" (145/154), "print" (168), "exit"
    dt,        \* the Vec<Row> of line 120
    ty,        \* the tier index of the current table (line 136)
    creating,  \* the branch taken at line 143 for the current table
    tableNo,   \* tables the zipped iterator of line 134 has yielded
    rowNo,     \* rows inner_regex.find_iter has yielded in the current table
    printed,   \* rows the loop of line 168 has printed
    out,       \* standard output: the nodes printed
    result,    \* "running", "ok", the error main returned, or the panic
    written    \* per row, the slots of uv assigned at lines 90 and 159

vars == <<pc, dt, ty, creating, tableNo, rowNo, printed, out, result, written>>

(* ----------------------------- bounds --------------------------------- *)

\* paired tables per run
MaxTables == 2

\* rows matched by inner_regex per table
MaxRows == 2

\* distinct L2(...) arguments in the inputs: 0 .. MaxL2
MaxL2 == 2

\* rows per table in the level allocation
MaxLevelRows == 4

(* ------------------------- program constants -------------------------- *)

\* uv: [u32; 7]
UvLen == 7

\* if dt.len() > 20
ItemLimit == 20

\* let hz = self.freq * 1000
HzPerKhz == 1000

\* one limb of a u32 is 16 bits wide
Base == 65536

\* u8::MAX + 1
U8Limit == 256

(* ------------------------------ numbers ------------------------------- *)

\* the limbs of a natural n < 2^31
Limbs(n) == <<n \div Base, n % Base>>

Zero == Limbs(0)

\* the exact product v * 1000 as <<hi, lo>> with hi unreduced (it needs more
\* than 16 bits when the product needs more than 32): the 64-bit value
ExactHz(v) ==
    LET a == v[2] * HzPerKhz
        b == v[1] * HzPerKhz + (a \div Base)
    IN  <<b, a % Base>>

\* u32 multiplication overflows
HzOverflows(v) == ExactHz(v)[1] >= Base

\* the product as a wrapping u32 multiplication leaves it
WrappedHz(v) == <<ExactHz(v)[1] % Base, ExactHz(v)[2]>>

(* ------------------------------- tokens ------------------------------- *)
\* FREQ_REGEX alternatives: hex literal | decimal literal | call-like | identifier

Dec(v) == [k |-> "dec", s |-> "", v |-> v]

Hex == [k |-> "hex", s |-> "0x00", v |-> Zero]

Call(name, v) == [k |-> "call", s |-> name, v |-> v]

Ident(name) == [k |-> "ident", s |-> name, v |-> Zero]

\* str::parse::<u8>() succeeds
ParsesU8(t) == t.k = "dec" /\ t.v[1] = 0 /\ t.v[2] < U8Limit

\* str::parse::<u32>() succeeds
ParsesU32(t) == t.k = "dec" /\ t.v[1] < Base

\* L2_LEVEL_REGEX.captures(token) is Some
L2Captures(t) == t.k = "call" /\ t.s = "L2"

(* ------------------------------ results ------------------------------- *)

BAD_FREQ_MATCH == "Failed to get required item in table row"

ParseIntError == "ParseIntError"

NoL2Captures == "No captures found for L2(...), please fix your kernel"

BadPvsType == "Bad PVS type"

BadItemCount == "Bad item count"

\* the panic of uv[pvs as usize] with pvs >= 7
PanicIndex == "index out of bounds"

\* the panic of self.freq * 1000 in a build with overflow checks
PanicOverflow == "attempt to multiply with overflow"

NoRow == [freq |-> Zero, is_pll8 |-> FALSE, l2_level |-> 0, perf_level |-> 0,
          uv |-> [i \in 0 .. UvLen - 1 |-> Zero]]

Err(e) == [tag |-> "Err", err |-> e, row |-> NoRow]

(* ------------------------- Row::try_parse_and_fixup_level ------------- *)

\* dt.iter().find(|row| row.l2_level == l2_level): the first index, 0 if none
FindL2(d, l2) ==
    IF \E i \in 1 .. Len(d) : d[i].l2_level = l2
    THEN CHOOSE i \in 1 .. Len(d) :
            /\ d[i].l2_level = l2
            /\ \A j \in 1 .. i - 1 : d[j].l2_level # l2
    ELSE 0

\* a mutation of FixupLevel: the level of an existing row is never reused
FixupLevelNoReuse(d, l2) ==
    IF Len(d) = 0 THEN 1 ELSE d[Len(d)].perf_level + 1

\* the perf_level of a new row
FixupLevel(d, l2) ==
    IF FindL2(d, l2) # 0 THEN d[FindL2(d, l2)].perf_level
    ELSE IF Len(d) = 0 THEN 1
    ELSE d[Len(d)].perf_level + 1

\* Ok(Some(row)) | Ok(None) | Err(e) | a panic (uv[pvs as usize] out of bounds)
try_parse_and_fixup_level(pvs, d, t) ==
    IF Len(t) < 1 THEN Err(BAD_FREQ_MATCH)
    ELSE IF ~ParsesU8(t[1]) THEN Err(ParseIntError)
    ELSE IF t[1].v = Zero THEN [tag |-> "None", err |-> "", row |-> NoRow]
    ELSE IF Len(t) < 2 THEN Err(BAD_FREQ_MATCH)
    ELSE IF ~ParsesU32(t[2]) THEN Err(ParseIntError)
    ELSE IF Len(t) < 3 THEN Err(BAD_FREQ_MATCH)
    ELSE IF Len(t) < 4 THEN Err(BAD_FREQ_MATCH)
    ELSE IF Len(t) < 5 THEN Err(BAD_FREQ_MATCH)
    ELSE IF Len(t) < 6 THEN Err(BAD_FREQ_MATCH)
    ELSE IF ~L2Captures(t[6]) THEN Err(NoL2Captures)
    ELSE IF ~ParsesU8(Dec(t[6].v)) THEN Err(ParseIntError)
    ELSE IF Len(t) < 7 THEN Err(BAD_FREQ_MATCH)
    ELSE IF ~ParsesU32(t[7]) THEN Err(ParseIntError)
    ELSE IF pvs >= UvLen THEN [tag |-> "Panic", err |-> PanicIndex, row |-> NoRow]
    ELSE [tag |-> "Some", err |-> "",
          row |-> [freq |-> t[2].v,
                   is_pll8 |-> (t[3].k = "ident" /\ t[3].s = "PLL_8"),
                   l2_level |-> t[6].v[2],
                   perf_level |-> FixupLevel(d, t[6].v[2]),
                   uv |-> [i \in 0 .. UvLen - 1 |-> IF i = pvs THEN t[7].v ELSE Zero]]]

(* ------------------------------ tiers --------------------------------- *)

\* Ok(index) as the index, Err as -1
pvs_macro_to_index(t) ==
    CASE t.k = "ident" /\ t.s = "PVS_SLOW" -> 0
      [] t.k = "ident" /\ t.s = "PVS_NOMINAL" -> 2
      [] t.k = "ident" /\ t.s = "PVS_FAST" -> 3
      [] t.k = "ident" /\ t.s = "PVS_FASTER" -> 4
      [] OTHER -> -1

\* pvs_name.parse::<u8>().or_else(|_| pvs_macro_to_index(pvs_name))
TierOf(t) == IF ParsesU8(t) THEN t.v[2] ELSE pvs_macro_to_index(t)

(* ------------------------------ merging ------------------------------- *)

\* dt.iter_mut().find(|row| row.freq == freq): the first index, 0 if none
FindFreq(d, f) ==
    IF \E i \in 1 .. Len(d) : d[i].freq = f
    THEN CHOOSE i \in 1 .. Len(d) :
            /\ d[i].freq = f
            /\ \A j \in 1 .. i - 1 : d[j].freq # f
    ELSE 0

\* a mutation of SetVoltage: the row's other slots are reset, as at creation
SetVoltageResetOthers(d, i, tier, v) ==
    [d EXCEPT ![i].uv = [n \in 0 .. UvLen - 1 |-> IF n = tier THEN v ELSE Zero]]

\* item.uv[ty as usize] = v
SetVoltage(d, i, tier, v) == [d EXCEPT ![i].uv[tier] = v]

\* a mutation of is_empty: every table takes the creation path
is_empty_always(d) == TRUE

\* dt.is_empty()
is_empty(d) == Len(d) = 0

(* ------------------------------ rendering ----------------------------- *)

\* <Row as Display>::fmt, given the product the build computed
fmt(row, hz) ==
    [name |-> hz,
     hz |-> hz,
     uv |-> [i \in 1 .. UvLen |-> [pvs |-> i - 1, v |-> <<row.uv[i - 1], row.uv[i - 1], row.uv[i - 1]>>]],
     level |-> row.perf_level,
     latency |-> row.is_pll8]

(* ------------------------------- inputs ------------------------------- *)

\* a frequency whose product with 1000 fits a u32
FreqFits == Limbs(384000)

\* the smallest frequency whose product with 1000 does not
FreqOverflows == Limbs(4294968)

\* 2^32: not a u32
TooWide == <<Base, 0>>

Designators ==
    { Ident("PVS_SLOW"), Ident("PVS_NOMINAL"), Ident("PVS_FAST"), Ident("PVS_FASTER"),
      Ident("PVS_TURBO"), Dec(Zero), Dec(Limbs(UvLen)), Dec(Limbs(U8Limit)) }

\* the tokens of one row: flag, { khz, src, sel..., l_val }, L2(n), uv
RowOf(flag, brace, l2, uv) == <<flag>> \o brace \o <<l2, uv>>

Brace(f, src) == <<Dec(f), Ident(src), Dec(Zero), Hex>>

\* rows kept for scaling: the PLL_8 row, a second row of the same frequency
\* with another source, L2 level and voltage, and a row of another frequency
WellFormedRows ==
    { RowOf(Dec(Limbs(1)), Brace(FreqFits, "PLL_8"), Call("L2", Zero), Dec(Limbs(900000))),
      RowOf(Dec(Limbs(1)), Brace(FreqFits, "HFPLL"), Call("L2", Limbs(1)), Dec(Limbs(950000))),
      RowOf(Dec(Limbs(1)), Brace(FreqOverflows, "HFPLL"), Call("L2", Limbs(1)), Dec(Limbs(950000))) }

\* rows not kept for scaling, and rows that do not have the expected tokens
OddRows ==
    { RowOf(Dec(Zero), Brace(FreqFits, "PLL_8"), Call("L2", Zero), Dec(Limbs(900000))),
      RowOf(Dec(Zero), Brace(FreqOverflows, "HFPLL"), Call("L3", Zero), Dec(TooWide)),
      RowOf(Dec(Limbs(U8Limit)), Brace(FreqFits, "PLL_8"), Call("L2", Zero), Dec(Limbs(900000))),
      RowOf(Dec(Limbs(1)), Brace(TooWide, "PLL_8"), Call("L2", Zero), Dec(Limbs(900000))),
      RowOf(Dec(Limbs(1)), <<Dec(FreqFits)>>, Call("L2", Zero), Dec(Limbs(900000))),
      RowOf(Dec(Limbs(1)), <<Dec(FreqFits), Ident("PLL_8"), Dec(Zero)>>, Call("L2", Zero), Dec(Limbs(900000))),
      RowOf(Dec(Limbs(1)), <<Dec(FreqFits), Ident("PLL_8"), Dec(Zero), Dec(Limbs(2)), Hex>>,
            Call("L2", Zero), Dec(Limbs(900000))),
      RowOf(Dec(Limbs(1)), Brace(FreqFits, "PLL_8"), Call("L3", Zero), Dec(Limbs(900000))),
      RowOf(Dec(Limbs(1)), Brace(FreqFits, "PLL_8"), Call("L2", Limbs(U8Limit)), Dec(Limbs(900000))),
      RowOf(Dec(Limbs(1)), Brace(FreqFits, "PLL_8"), Call("L2", Zero), Dec(TooWide)),
      RowOf(Dec(Limbs(1)), Brace(FreqOverflows, "HFPLL"), Call("L2", Zero), Dec(TooWide)) }

\* the rows of the level allocation: every L2 level, kept for scaling or not;
\* the rows of level 0 are the PLL_8 rows, whose product fits
LevelRows ==
    { RowOf(Dec(Limbs(flag)),
            IF n = 0 THEN Brace(FreqFits, "PLL_8") ELSE Brace(FreqOverflows, "HFPLL"),
            Call("L2", Limbs(n)), Dec(Limbs(900000))) :
        flag \in 0 .. 1, n \in 0 .. MaxL2 }

RowTexts == WellFormedRows \cup OddRows

(* ------------------------------- main --------------------------------- *)

Init ==
    /\ pc = "tables"
    /\ dt = <<>>
    /\ ty = 0
    /\ creating = FALSE
    /\ tableNo = 0
    /\ rowNo = 0
    /\ printed = 0
    /\ out = <<>>
    /\ result = "running"
    /\ written = <<>>

Fail(e) ==
    /\ pc' = "exit"
    /\ result' = e

\* the zipped iterator yields the next (table, (pvs_name, table_name))
NextTable(pvs_name, maxTables) ==
    /\ pc = "tables"
    /\ tableNo < maxTables
    /\ tableNo' = tableNo + 1
    /\ rowNo' = 0
    /\ IF TierOf(pvs_name) < 0
       THEN /\ Fail(BadPvsType)
            /\ UNCHANGED <<ty, creating>>
       ELSE /\ ty' = TierOf(pvs_name)
            /\ creating' = is_empty(dt)
            /\ pc' = "rows"
            /\ UNCHANGED result
    /\ UNCHANGED <<dt, printed, out, written>>

\* one iteration of the loop of lines 145-151
ParseRow(row, maxRows) ==
    /\ pc = "rows"
    /\ creating
    /\ rowNo < maxRows
    /\ rowNo' = rowNo + 1
    /\ LET r == try_parse_and_fixup_level(ty, dt, row)
       IN  CASE r.tag = "Some" ->
                  /\ dt' = Append(dt, r.row)
                  /\ written' = Append(written, {ty})
                  /\ UNCHANGED <<pc, result>>
             [] r.tag = "None" ->
                  UNCHANGED <<dt, written, pc, result>>
             [] OTHER ->
                  /\ Fail(r.err)
                  /\ UNCHANGED <<dt, written>>
    /\ UNCHANGED <<ty, creating, tableNo, printed, out>>

\* one iteration of the loop of lines 154-161
MergeRow(row, maxRows) ==
    /\ pc = "rows"
    /\ ~creating
    /\ rowNo < maxRows
    /\ rowNo' = rowNo + 1
    /\ IF Len(row) < 2 THEN Fail(BAD_FREQ_MATCH) /\ UNCHANGED <<dt, written>>
       ELSE IF ~ParsesU32(row[2]) THEN Fail(ParseIntError) /\ UNCHANGED <<dt, written>>
       ELSE IF FindFreq(dt, row[2].v) = 0 THEN UNCHANGED <<dt, written, pc, result>>
       ELSE IF Len(row) < 7 THEN Fail(BAD_FREQ_MATCH) /\ UNCHANGED <<dt, written>>
       ELSE IF ~ParsesU32(row[7]) THEN Fail(ParseIntError) /\ UNCHANGED <<dt, written>>
       ELSE IF ty >= UvLen THEN Fail(PanicIndex) /\ UNCHANGED <<dt, written>>
       ELSE /\ dt' = SetVoltage(dt, FindFreq(dt, row[2].v), ty, row[7].v)
            /\ written' = [written EXCEPT ![FindFreq(dt, row[2].v)] = @ \cup {ty}]
            /\ UNCHANGED <<pc, result>>
    /\ UNCHANGED <<ty, creating, tableNo, printed, out>>

\* inner_regex.find_iter(inner) is exhausted
EndRows ==
    /\ pc = "rows"
    /\ pc' = "tables"
    /\ UNCHANGED <<dt, ty, creating, tableNo, rowNo, printed, out, result, written>>

\* the zipped iterator is exhausted: lines 165-167
EndTables ==
    /\ pc = "tables"
    /\ IF Len(dt) > ItemLimit
       THEN Fail(BadItemCount)
       ELSE pc' = "print" /\ UNCHANGED result
    /\ UNCHANGED <<dt, ty, creating, tableNo, rowNo, printed, out, written>>

\* one iteration of the loop of lines 168-170, or its end.  self.freq * 1000
\* is a u32 product: a build with overflow checks panics on the first row whose
\* product does not fit, a build without them wraps every one of them.
PrintRow ==
    /\ pc = "print"
    /\ IF printed = Len(dt)
       THEN /\ pc' = "exit"
            /\ result' = "ok"
            /\ UNCHANGED <<printed, out>>
       ELSE LET row == dt[printed + 1]
            IN  \/ /\ HzOverflows(row.freq)
                   /\ \A i \in 1 .. printed : ~HzOverflows(dt[i].freq)
                   /\ Fail(PanicOverflow)
                   /\ UNCHANGED <<printed, out>>
                \/ /\ out' = Append(out, fmt(row, WrappedHz(row.freq)))
                   /\ printed' = printed + 1
                   /\ UNCHANGED <<pc, result>>
    /\ UNCHANGED <<dt, ty, creating, tableNo, rowNo, written>>

Next ==
    \/ \E pvs_name \in Designators : NextTable(pvs_name, MaxTables)
    \/ \E row \in RowTexts : ParseRow(row, MaxRows)
    \/ \E row \in RowTexts : MergeRow(row, MaxRows)
    \/ EndRows
    \/ EndTables
    \/ PrintRow

Spec == Init /\ [][Next]_vars

\* the same program on a source with one paired table, whose rows vary the L2
\* level only: the first-tier traversal that allocates the levels
NextLevels ==
    \/ \E pvs_name \in Designators : NextTable(pvs_name, 1)
    \/ \E row \in LevelRows : ParseRow(row, MaxLevelRows)
    \/ EndRows
    \/ EndTables
    \/ PrintRow

SpecLevels == Init /\ [][NextLevels]_vars

(* ------------------------------- claims ------------------------------- *)

\* C1: in the row set built by try_parse_and_fixup_level, any two rows with the
\* same l2_level have the same perf_level, and the row created while the set
\* was empty has perf_level 1.
C1_SameIndexSameLevel ==
    /\ \A i, j \in 1 .. Len(dt) :
          dt[i].l2_level = dt[j].l2_level => dt[i].perf_level = dt[j].perf_level
    /\ Len(dt) > 0 => dt[1].perf_level = 1

\* a level is reused by a row that comes after a row of another L2 level
C1_Witness ==
    /\ Len(dt) >= 3
    /\ dt[3].l2_level = dt[1].l2_level
    /\ dt[2].l2_level # dt[1].l2_level

\* C2: a row whose l2_level is new gets a perf_level above that of every
\* earlier row, so two rows with different l2_level never share a perf_level.
C2_DistinctIndexDistinctLevel ==
    \A i, j \in 1 .. Len(dt) :
        dt[i].l2_level # dt[j].l2_level => dt[i].perf_level # dt[j].perf_level

\* the rows' fields other than the voltages, in order
Identity(d) ==
    [i \in 1 .. Len(d) |-> <<d[i].freq, d[i].is_pll8, d[i].l2_level, d[i].perf_level>>]

\* C3: on the merge path, a row whose frequency matches an existing row changes
\* at most that row's voltage slot of the current tier: whenever such a step
\* changes the row set, the row's other fields, its other slots and every other
\* row stay as they were.
C3_MergeTouchesOneSlot ==
    [][(~creating /\ dt' # dt) =>
          \A row \in RowTexts :
              (MergeRow(row, MaxRows) /\ ParsesU32(row[2]) /\ FindFreq(dt, row[2].v) # 0) =>
                  LET i == FindFreq(dt, row[2].v)
                  IN  /\ Identity(dt') = Identity(dt)
                      /\ \A j \in 1 .. Len(dt) : j # i => dt'[j] = dt[j]
                      /\ \A n \in 0 .. UvLen - 1 : n # ty => dt'[i].uv[n] = dt[i].uv[n]]_vars

\* a later table has written a second slot of a row that is not the only row
C3_Witness ==
    /\ pc = "rows"
    /\ ~creating
    /\ Len(dt) >= 2
    /\ \E i \in 1 .. Len(dt) :
          /\ ty \in written[i]
          /\ Cardinality(written[i]) >= 2
          /\ dt[i].uv[ty] # Zero

\* C4: once the row set is non-empty at the start of a table, that table and
\* every later step take the merge path and never add, remove or reorder rows,
\* and a row whose frequency matches no existing row changes nothing and
\* raises no error.
C4_RowsOnlyFromFirstTable ==
    [][/\ (pc = "tables" /\ Len(dt) > 0) => (dt' = dt /\ (pc' = "rows" => ~creating'))
       /\ (pc = "rows" /\ ~creating) =>
             (Identity(dt') = Identity(dt) /\ (pc' = "rows" => ~creating'))
       /\ pc \in {"print", "exit"} => dt' = dt
       /\ \A row \in RowTexts :
             (ParsesU32(row[2]) /\ FindFreq(dt, row[2].v) = 0 /\ MergeRow(row, MaxRows)) =>
                 (dt' = dt /\ pc' = "rows" /\ result' = "running")]_vars

\* a later table of another tier has processed a row and written nothing
C4_Witness ==
    /\ pc = "rows"
    /\ ~creating
    /\ rowNo >= 1
    /\ result = "running"
    /\ Len(dt) >= 1
    /\ \A i \in 1 .. Len(dt) : ty \notin written[i]

\* C5: no two rows of the set that is checked against the limit and rendered
\* have the same frequency.
C5_UniqueFrequencies ==
    pc = "print" =>
        \A i, j \in 1 .. Len(dt) : i # j => dt[i].freq # dt[j].freq

\* C6: nothing is written before the tables are processed and the count is
\* checked; a run that fails has written nothing, and a run that succeeds has
\* written every row, in creation order.
C6_AllOrNothing ==
    /\ pc \in {"tables", "rows"} => out = <<>>
    /\ (pc = "exit" /\ result # "ok") => out = <<>>
    /\ (pc = "exit" /\ result = "ok") =>
          /\ Len(out) = Len(dt)
          /\ \A i \in 1 .. Len(dt) : out[i] = fmt(dt[i], WrappedHz(dt[i].freq))

\* C7: a run that found no table does not end successfully.
C7_NoTableFails ==
    (pc = "exit" /\ tableNo = 0) => result # "ok"

\* C8: rows are created or merged only under a tier that has a voltage slot,
\* and no voltage write falls outside the array.
C8_TierHasSlot ==
    /\ pc = "rows" => ty \in 0 .. UvLen - 1
    /\ result # PanicIndex

\* C9: the voltage properties of a rendered row are those of the tiers whose
\* voltage was written from the source, each with one magnitude three times.
C9_OnePropertyPerPopulatedTier ==
    \A i \in 1 .. Len(out) :
        /\ {out[i].uv[n].pvs : n \in 1 .. Len(out[i].uv)} = written[i]
        /\ \A n \in 1 .. Len(out[i].uv) :
              out[i].uv[n].v = <<dt[i].uv[out[i].uv[n].pvs], dt[i].uv[out[i].uv[n].pvs],
                                 dt[i].uv[out[i].uv[n].pvs]>>

\* C10: the rendered opp-hz and node name are the exact product of the row's
\* frequency and 1000, and the multiplication does not fail.
C10_ExactHz ==
    /\ result # PanicOverflow
    /\ \A i \in 1 .. Len(out) :
          /\ out[i].hz = ExactHz(dt[i].freq)
          /\ out[i].name = ExactHz(dt[i].freq)

====
